---- MODULE Spec2Model ----
(***************************************************************************)
(* Model of lstchain/calib/camera/calib.py: lst_calibration,               *)
(* gain_selection and combine_channels acting on a ctapipe event and on    *)
(* the module-level gain_selector.thresholds table.                        *)
(*                                                                         *)
(* numpy arrays are records [ndim, v].  v is always a sequence of rows:    *)
(* a 2-d array [G, P] holds its G rows, a 1-d array [P] holds its single   *)
(* row, a 3-d waveform [G, P, S] holds G sequences of P sample sequences,  *)
(* and None (no array) has ndim 0.  Python index i is index i + 1 here:    *)
(* channel 1 is the high-gain channel (python 0), channel 2 the low-gain   *)
(* channel (python 1).  Floating-point values are exact rationals [n, d].  *)
(***************************************************************************)
EXTENDS Integers, Sequences, FiniteSets

\* ------------------------------------------------------------------ bounds
\* Largest number of pixels of a camera.
MaxPixels == 2
\* Number of time samples of a waveform.
NumSamples == 2
Tels == {1, 2}
CamIds == {"LSTCam", "NectarCam"}
Thresholds == {0, 1}
\* Pulse amplitudes: above the lower threshold only, and above both.
Amplitudes == {1, 2}

\* ---------------------------------------------------------------- rationals
RECURSIVE Gcd(_, _)
Gcd(a, b) == IF b = 0 THEN a ELSE Gcd(b, a % b)

Abs(x) == IF x < 0 THEN -x ELSE x

\* The rational n/d (d # 0) in lowest terms with a positive denominator.
Rat(n, d) ==
    LET g == Gcd(Abs(n), Abs(d))
        s == IF d < 0 THEN -1 ELSE 1
    IN  [n |-> (s * n) \div g, d |-> (s * d) \div g]

RSub(x, y) == Rat(x.n * y.d - y.n * x.d, x.d * y.d)
RAdd(x, y) == Rat(x.n * y.d + y.n * x.d, x.d * y.d)
RMul(x, y) == Rat(x.n * y.n, x.d * y.d)
RLess(x, y) == x.n * y.d < y.n * x.d

\* ------------------------------------------------------------------- arrays
None == [ndim |-> 0, v |-> <<>>]
Arr1(row) == [ndim |-> 1, v |-> <<row>>]
Arr2(rows) == [ndim |-> 2, v |-> rows]
Arr3(rows) == [ndim |-> 3, v |-> rows]

\* a.shape[0]
Shape0(a) == IF a.ndim = 1 THEN Len(a.v[1]) ELSE Len(a.v)
\* a.shape[1] of a 2-d or 3-d array
Shape1(a) == Len(a.v[1])
\* a.shape[2] of a 3-d array
Shape2(a) == Len(a.v[1][1])

\* ------------------------------------------------------------ event inputs
\* A waveform [2, P, S] that is zero but for one pulse of amplitude amp in
\* pixel hot at sample peak; the low-gain channel records amp - 1.
\* hot = 0 is the waveform without a pulse.
PulseWaveform(P, hot, peak, amp) ==
    Arr3([g \in 1..2 |-> [p \in 1..P |-> [s \in 1..NumSamples |->
        IF p = hot /\ s = peak THEN (IF g = 1 THEN amp ELSE amp - 1) ELSE 0]]])

Waveforms(P) ==
    {PulseWaveform(P, 0, 1, 1)} \cup
    {PulseWaveform(P, hot, peak, amp) :
        hot \in 1..P, peak \in 1..NumSamples, amp \in Amplitudes}

\* A [K, P] array that is zero but for value val at (hg, hp); hg = 0: all zero.
OneHot(K, P, hg, hp, val, zero) ==
    Arr2([g \in 1..K |-> [p \in 1..P |->
        IF g = hg /\ p = hp THEN val ELSE zero]])

OneHots(K, P, val, zero) ==
    {OneHot(K, P, 0, 1, val, zero)} \cup
    {OneHot(K, P, hg, hp, val, zero) : hg \in 1..K, hp \in 1..P}

\* A [K, P] array of pairwise different values 10 * g + p.
Distinct(K, P) == Arr2([g \in 1..K |-> [p \in 1..P |-> 10 * g + p]])
DistinctRat(K, P) == Arr2([g \in 1..K |-> [p \in 1..P |-> Rat(10 * g + p, 1)]])

\* The charges [[10, ..., 10], [5, ..., 5]].
ExampleCharges(P) ==
    Arr2([g \in 1..2 |-> [p \in 1..P |-> IF g = 1 THEN Rat(10, 1) ELSE Rat(5, 1)]])

Zeros(K, P) == Arr2([g \in 1..K |-> [p \in 1..P |-> 0]])
Ones(K, P) == Arr2([g \in 1..K |-> [p \in 1..P |-> 1]])
\* dc_to_pe differing between the channels: g for channel g.
PerChannel(K, P) == Arr2([g \in 1..K |-> [p \in 1..P |-> g]])

NoMc == [pedestal |-> None, dc_to_pe |-> None]
NoDl1 == [image |-> None, pulse_time |-> None]
NoArgs == [waveform |-> None, charges |-> None, pulse_time |-> None]

\* The dictionaries gain_selector.thresholds can be: sets of (cam_id,
\* threshold) pairs with at most one pair per cam_id.
Tables ==
    {d \in SUBSET (CamIds \X Thresholds) :
        \A e1 \in d, e2 \in d : e1[1] = e2[1] => e1 = e2}

\* The tables ThresholdGainSelector loads at construction: a threshold for
\* every camera.
LoadedTables == {d \in Tables : \A c \in CamIds : \E e \in d : e[1] = c}

VARIABLES
    r0,          \* event.r0.tel[t].waveform
    mc,          \* event.mc.tel[t]: pedestal, dc_to_pe
    inst,        \* event.inst.subarray.tel[t].camera.cam_id
    dl1,         \* event.dl1.tel[t]: image, pulse_time
    thresholds,  \* gain_selector.thresholds
    args,        \* the arrays a direct caller of gain_selection holds
    stage,       \* the driver's position in the pipeline, per telescope
    call         \* the last call: operation, arguments, outcome, result

vars == <<r0, mc, inst, dl1, thresholds, args, stage, call>>

NoCall ==
    [op |-> "none", tel |-> 0, cam_id |-> "-", threshold |-> 0,
     outcome |-> "none", result |-> NoDl1, handed |-> None]

\* ---------------------------------------------------------- lst_calibration
\* nsamples read from the pixel axis, data.shape[1].
nsamples_pixel_axis(data) == Shape1(data)

\* nsamples = data.shape[2]
nsamples(data) == Shape2(data)

\* np.atleast_3d of a 2-d array [M, N]: the array [M, N, 1].
atleast_3d(a) == Arr3([g \in 1..Len(a.v) |-> [p \in 1..Len(a.v[g]) |-> <<a.v[g][p]>>]])

\* a / n, elementwise true division of an integer 3-d array by the integer n.
TrueDivide(a, n) ==
    Arr3([g \in 1..Len(a.v) |-> [p \in 1..Len(a.v[g]) |->
        [s \in 1..Len(a.v[g][p]) |-> Rat(a.v[g][p][s], n)]]])

\* numpy broadcasting: an axis of length 1 is read at its only index.
BIdx(len, i) == IF len = 1 THEN 1 ELSE i

\* data - q for the integer array data [G, P, S] and a rational array q whose
\* axes are those of data or of length 1.
BroadcastSubtract(data, q) ==
    Arr3([g \in 1..Len(data.v) |-> [p \in 1..Len(data.v[g]) |->
        [s \in 1..Len(data.v[g][p]) |->
            LET qg == q.v[BIdx(Len(q.v), g)]
                qp == qg[BIdx(Len(qg), p)]
            IN  RSub(Rat(data.v[g][p][s], 1), qp[BIdx(Len(qp), s)])]]])

\* pedcorrectedsamples = data - np.atleast_3d(ped) / nsamples
pedcorrectedsamples(data, ped) ==
    BroadcastSubtract(data, TrueDivide(atleast_3d(ped), nsamples(data)))

\* The extractor's window: window_width samples starting window_shift
\* samples before the peak.
window_width == 7
window_shift == 3

\* The first index of the largest of the samples.
ArgMax(samples) ==
    CHOOSE i \in 1..Len(samples) :
        /\ \A j \in 1..Len(samples) : ~RLess(samples[i], samples[j])
        /\ \A j \in 1..(i - 1) : RLess(samples[j], samples[i])

RECURSIVE WindowSum(_, _, _)
WindowSum(samples, from, to) ==
    IF from > to THEN Rat(0, 1)
    ELSE RAdd(samples[from], WindowSum(samples, from + 1, to))

Max(a, b) == IF a > b THEN a ELSE b
Min(a, b) == IF a < b THEN a ELSE b

\* LocalPeakWindowSum()(waveform): per channel and pixel the sum of the
\* samples in the window around the peak, and the peak's (python) index.
\* The sum of the samples in the window around index peak.
WindowCharge(samples, peak) ==
    WindowSum(samples, Max(1, peak - window_shift),
              Min(Len(samples), peak - window_shift + window_width - 1))

LocalPeakWindowSum(w) ==
    [integration |-> Arr2([g \in 1..Len(w.v) |-> [p \in 1..Len(w.v[g]) |->
                        WindowCharge(w.v[g][p], ArgMax(w.v[g][p]))]]),
     pulse_time |-> Arr2([g \in 1..Len(w.v) |-> [p \in 1..Len(w.v[g]) |->
                        ArgMax(w.v[g][p]) - 1]])]

\* signals *= dc2pe, for arrays of one shape [G, P].
Multiply(signals, dc2pe) ==
    Arr2([g \in 1..Len(signals.v) |-> [p \in 1..Len(signals.v[g]) |->
        RMul(signals.v[g][p], Rat(dc2pe.v[g][p], 1))]])

\* lst_calibration(event, telescope_id).  A telescope without a waveform
\* (None) fails at data.shape with an AttributeError, before any write.
lst_calibration(t) ==
    IF r0[t].ndim = 0
    THEN /\ call' = [NoCall EXCEPT !.op = "lst_calibration", !.tel = t,
                                   !.outcome = "AttributeError"]
         /\ UNCHANGED <<r0, mc, inst, dl1, thresholds, args, stage>>
    ELSE \E corrected \in {pedcorrectedsamples(r0[t], mc[t].pedestal)} :
         \E extracted \in {LocalPeakWindowSum(corrected)} :
         \E signals \in {Multiply(extracted.integration, mc[t].dc_to_pe)} :
             /\ dl1' = [dl1 EXCEPT ![t] = [image |-> signals,
                                           pulse_time |-> extracted.pulse_time]]
             /\ stage' = [stage EXCEPT ![t] = "calibrated"]
             /\ call' = [NoCall EXCEPT !.op = "lst_calibration", !.tel = t,
                                       !.outcome = "returned", !.handed = corrected]
             /\ UNCHANGED <<r0, mc, inst, thresholds, args>>

LstCalibration == \E t \in Tels : lst_calibration(t)

\* ----------------------------------------------------------- gain_selection
\* d[k] = val: the entry of key k is replaced, every other entry is kept.
SetItem(d, k, val) == {e \in d : e[1] # k} \cup {<<k, val>>}

\* d[k] of a dictionary that holds key k.
GetItem(d, k) == (CHOOSE e \in d : e[1] = k)[2]

HasKey(d, k) == \E e \in d : e[1] = k

\* The larger of the threshold held and the threshold passed is kept.
store_threshold_max(table, cam_id, threshold) ==
    IF HasKey(table, cam_id) /\ GetItem(table, cam_id) > threshold
    THEN table
    ELSE SetItem(table, cam_id, threshold)

\* The threshold kept when the camera has one:
\* gain_selector.thresholds.setdefault(cam_id, threshold).
store_threshold_sticky(table, cam_id, threshold) ==
    IF HasKey(table, cam_id) THEN table ELSE SetItem(table, cam_id, threshold)

\* gain_selector.thresholds[cam_id] = threshold
store_threshold(table, cam_id, threshold) == SetItem(table, cam_id, threshold)

\* gain_selector.select_gains(cam_id, waveform) with select_by_sample: the
\* per-sample mask [P, S] of the high-gain samples above the threshold the
\* table holds for cam_id.  The waveform it returns is a new array, which
\* gain_selection binds to its local name and never reads.
select_gains(cam_id, waveform, table) ==
    LET threshold == GetItem(table, cam_id)
    IN  [p \in 1..Len(waveform.v[1]) |-> [s \in 1..Len(waveform.v[1][p]) |->
            waveform.v[1][p][s] > threshold]]

\* gain_mask.min(axis=1): a pixel is selected only when every sample is.
min_axis1(gain_mask) ==
    [p \in 1..Len(gain_mask) |-> \A s \in 1..Len(gain_mask[p]) : gain_mask[p][s]]

\* gain_mask.max(axis=1): per pixel the largest of its booleans.
max_axis1(gain_mask) ==
    [p \in 1..Len(gain_mask) |-> \E s \in 1..Len(gain_mask[p]) : gain_mask[p][s]]

\* The number of True among mask[1..p].
RECURSIVE Rank(_, _)
Rank(mask, p) ==
    IF p = 0 THEN 0 ELSE Rank(mask, p - 1) + (IF mask[p] THEN 1 ELSE 0)

\* The k-th index at which mask is True.
Position(mask, k) == CHOOSE p \in 1..Len(mask) : mask[p] /\ Rank(mask, p) = k

\* row[:mask.sum()]: as many values as mask has True, from the front.
BoolIndexFront(row, mask) == [k \in 1..Rank(mask, Len(mask)) |-> row[k]]

\* row[mask]: the values of row where mask is True, in order.
BoolIndex(row, mask) ==
    [k \in 1..Rank(mask, Len(mask)) |-> row[Position(mask, k)]]

\* row[mask] = values: the k-th True position takes the k-th value.
BoolAssign(row, mask, values) ==
    [p \in 1..Len(row) |-> IF mask[p] THEN values[Rank(mask, p)] ELSE row[p]]

\* a[i] without .copy(): a view of row i of a.
row_view(a, i) == [v |-> a.v[i], view |-> TRUE]

\* a[i].copy(): a new array holding row i of the 2-d array a.  view tells
\* whether writes to it go through to a.
row_copy(a, i) == [v |-> a.v[i], view |-> FALSE]

\* target[signal_mask] = source[i][signal_mask].copy()
masked_assign(target, signal_mask, source, i) ==
    [target EXCEPT !.v = BoolAssign(target.v, signal_mask,
                                    BoolIndex(source.v[i], signal_mask))]

\* The array a after the writes to the array taken from its row i.
WrittenThrough(a, i, row) == IF row.view THEN [a EXCEPT !.v[i] = row.v] ELSE a

\* Whether `assert charges.shape[0] == 2` passes.
precondition(charges) == Shape0(charges) = 2

\* Lines 76-81 without line 79: the pulse time is left the high-gain one.
combine_time_unmasked(charges, pulse_time, signal_mask, table1) ==
    [outcome |-> "returned",
     image |-> Arr1(masked_assign(row_copy(charges, 1), signal_mask, charges, 2).v),
     pulse_time |-> Arr1(row_copy(pulse_time, 1).v),
     table |-> table1,
     charges_arg |-> charges,
     pulse_time_arg |-> pulse_time]

\* Lines 76-81 for 2-d charges and pulse_time: the combined arrays, and the
\* argument arrays after the masked writes.
combine(charges, pulse_time, signal_mask, table1) ==
    [outcome |-> "returned",
     image |-> Arr1(masked_assign(row_copy(charges, 1), signal_mask, charges, 2).v),
     pulse_time |->
         Arr1(masked_assign(row_copy(pulse_time, 1), signal_mask, pulse_time, 2).v),
     table |-> table1,
     charges_arg |->
         WrittenThrough(charges, 1,
                        masked_assign(row_copy(charges, 1), signal_mask, charges, 2)),
     pulse_time_arg |->
         WrittenThrough(pulse_time, 1,
                        masked_assign(row_copy(pulse_time, 1), signal_mask, pulse_time, 2))]

\* A call that raises: no arrays are returned and none is written.
raised(outcome, charges, pulse_time, table) ==
    [outcome |-> outcome, image |-> None, pulse_time |-> None, table |-> table,
     charges_arg |-> charges, pulse_time_arg |-> pulse_time]

\* Lines 71-81, the assertion having passed.
\*   charges 1-d of length 2   charges[1] is a scalar, and indexing it with
\*                             signal_mask raises IndexError
select_and_combine(waveform, charges, pulse_time, cam_id, threshold, table) ==
    IF charges.ndim = 1
    THEN raised("IndexError", charges, pulse_time,
                store_threshold(table, cam_id, threshold))
    ELSE combine(charges, pulse_time,
                 max_axis1(select_gains(cam_id, waveform,
                                        store_threshold(table, cam_id, threshold))),
                 store_threshold(table, cam_id, threshold))

\* gain_selection with the threshold stored before the assertion.
gain_selection_store_first(waveform, charges, pulse_time, cam_id, threshold, table) ==
    IF charges.ndim = 0 THEN raised("AttributeError", charges, pulse_time, table)
    ELSE IF ~precondition(charges)
         THEN raised("AssertionError", charges, pulse_time,
                     store_threshold(table, cam_id, threshold))
         ELSE select_and_combine(waveform, charges, pulse_time, cam_id, threshold,
                                 table)

\* gain_selection(waveform, charges, pulse_time, cam_id, threshold) called
\* with gain_selector.thresholds = table: its outcome, the arrays it
\* returns, the table after the call and the argument arrays after the call.
\*   charges None              AttributeError at charges.shape
\*   charges.shape[0] # 2      AssertionError
gain_selection(waveform, charges, pulse_time, cam_id, threshold, table) ==
    IF charges.ndim = 0 THEN raised("AttributeError", charges, pulse_time, table)
    ELSE IF ~precondition(charges)
         THEN raised("AssertionError", charges, pulse_time, table)
         ELSE select_and_combine(waveform, charges, pulse_time, cam_id, threshold,
                                 table)

\* A direct call gain_selection(args.waveform, args.charges, args.pulse_time,
\* cam_id, threshold).
GainSelection ==
    \E cam_id \in CamIds, threshold \in Thresholds :
    \E r \in {gain_selection(args.waveform, args.charges, args.pulse_time,
                             cam_id, threshold, thresholds)} :
        /\ thresholds' = r.table
        /\ args' = [args EXCEPT !.charges = r.charges_arg,
                                !.pulse_time = r.pulse_time_arg]
        /\ call' = [NoCall EXCEPT !.op = "gain_selection", !.cam_id = cam_id,
                                  !.threshold = threshold, !.outcome = r.outcome,
                                  !.result = [image |-> r.image,
                                              pulse_time |-> r.pulse_time]]
        /\ UNCHANGED <<r0, mc, inst, dl1, stage>>

\* --------------------------------------------------------- combine_channels
\* combine_channels that writes the combined image and leaves pulse_time.
combine_channels_image_only(tel_id, threshold) ==
    \E r \in {gain_selection(r0[tel_id], dl1[tel_id].image, dl1[tel_id].pulse_time,
                             inst[tel_id], threshold, thresholds)} :
        /\ thresholds' = r.table
        /\ IF r.outcome = "returned"
           THEN /\ dl1' = [dl1 EXCEPT ![tel_id].image = r.image]
                /\ stage' = [stage EXCEPT ![tel_id] = "combined"]
           ELSE /\ dl1' = dl1
                /\ stage' = stage
        /\ call' = [NoCall EXCEPT !.op = "combine_channels", !.tel = tel_id,
                                  !.cam_id = inst[tel_id], !.threshold = threshold,
                                  !.outcome = r.outcome]
        /\ UNCHANGED <<r0, mc, inst, args>>

\* combine_channels(event, tel_id, threshold): returns None.  The event is
\* written only when gain_selection returns; the arrays handed to
\* gain_selection are those the event holds.
combine_channels(tel_id, threshold) ==
    \E r \in {gain_selection(r0[tel_id], dl1[tel_id].image, dl1[tel_id].pulse_time,
                             inst[tel_id], threshold, thresholds)} :
        /\ thresholds' = r.table
        /\ IF r.outcome = "returned"
           THEN /\ dl1' = [dl1 EXCEPT ![tel_id] = [image |-> r.image,
                                                   pulse_time |-> r.pulse_time]]
                /\ stage' = [stage EXCEPT ![tel_id] = "combined"]
           ELSE /\ dl1' = [dl1 EXCEPT ![tel_id] = [image |-> r.charges_arg,
                                                   pulse_time |-> r.pulse_time_arg]]
                /\ stage' = stage
        /\ call' = [NoCall EXCEPT !.op = "combine_channels", !.tel = tel_id,
                                  !.cam_id = inst[tel_id], !.threshold = threshold,
                                  !.outcome = r.outcome]
        /\ UNCHANGED <<r0, mc, inst, args>>

CombineChannels == \E tel_id \in Tels, threshold \in Thresholds :
    combine_channels(tel_id, threshold)

\* ------------------------------------------------------------ specification
\* An event in which both telescopes have data: telescope 1 any waveform,
\* the others the waveform of MaxPixels pixels without a pulse.
PipelineEvents ==
    {[t \in Tels |-> IF t = 1 THEN w ELSE PulseWaveform(MaxPixels, 0, 1, 1)] :
        w \in UNION {Waveforms(n) : n \in 1..MaxPixels}}

\* The arguments of a direct call of gain_selection: a waveform [2, P, S]
\* with charges and pulse times [K, P].
DirectArgs ==
    UNION {
        {[waveform |-> w, charges |-> c, pulse_time |-> Distinct(2, P)] :
            w \in Waveforms(P),
            c \in OneHots(2, P, Rat(5, 1), Rat(0, 1))
                    \cup {DistinctRat(2, P), ExampleCharges(P)}}
        \cup
        {[waveform |-> w, charges |-> DistinctRat(2, P), pulse_time |-> pt] :
            w \in Waveforms(P), pt \in OneHots(2, P, 1, 0)}
        \cup
        {[waveform |-> w, charges |-> DistinctRat(K, P), pulse_time |-> Distinct(K, P)] :
            w \in Waveforms(P), K \in {1, 3}}
        : P \in 1..MaxPixels}

InitCommon ==
    /\ inst = [t \in Tels |-> IF t = 1 THEN "LSTCam" ELSE "NectarCam"]
    /\ dl1 = [t \in Tels |-> NoDl1]
    /\ thresholds \in LoadedTables
    /\ stage = [t \in Tels |-> "raw"]
    /\ call = NoCall

\* Both telescopes triggered: zero pedestals, unit dc_to_pe.
InitPipeline ==
    /\ r0 \in PipelineEvents
    /\ mc = [t \in Tels |-> [pedestal |-> Zeros(2, Shape1(r0[t])),
                             dc_to_pe |-> Ones(2, Shape1(r0[t]))]]
    /\ args = NoArgs

\* The waveform and pedestal of a telescope of P pixels: any pulse over
\* pairwise different pedestals, or no pulse over a pedestal in one pixel of
\* one channel.
CalibInputs(P) ==
    {<<w, Distinct(2, P)>> : w \in Waveforms(P)} \cup
    {<<PulseWaveform(P, 0, 1, 1), ped>> : ped \in OneHots(2, P, 1, 0)}

\* Telescope 1 alone triggered.
InitCalib ==
    /\ \E P \in 1..MaxPixels :
       \E in \in CalibInputs(P), dc \in {Ones(2, P), PerChannel(2, P)} :
        /\ r0 = [t \in Tels |-> IF t = 1 THEN in[1] ELSE None]
        /\ mc = [t \in Tels |-> IF t = 1 THEN [pedestal |-> in[2], dc_to_pe |-> dc]
                                 ELSE NoMc]
    /\ args = NoArgs

\* No telescope triggered; a caller holds arrays for gain_selection.
InitDirect ==
    /\ r0 = [t \in Tels |-> None]
    /\ mc = [t \in Tels |-> NoMc]
    /\ args \in DirectArgs

Init == InitCommon /\ (InitPipeline \/ InitCalib \/ InitDirect)

Next == LstCalibration \/ GainSelection \/ CombineChannels

Spec == Init /\ [][Next]_vars

\* ------------------------------------------------------------------- claims
\* The number of pixels of telescope t's camera.
NPix(t) == Shape1(r0[t])

\* The entries table d holds for camera c.
Entries(d, c) == {e \in d : e[1] = c}

\* A direct call of gain_selection with two-channel charges [2, P] has been
\* made, and its arguments are args.
DirectCallMade ==
    /\ call.op = "gain_selection"
    /\ args.charges.ndim = 2
    /\ Shape0(args.charges) = 2

\* Whether some high-gain sample of pixel p of waveform w is above thr.
Saturated(w, p, thr) == \E s \in 1..Len(w.v[1][p]) : w.v[1][p][s] > thr

\* C1: for charges C and pulse times T of shape [2, P] with a waveform
\* [2, P, S], gain_selection returns an image and a pulse time of shape [P],
\* and for every pixel p the image is C[0][p] or C[1][p] and the pulse time
\* is T[0][p] or T[1][p].
C1_OutputFromOneChannel ==
    DirectCallMade =>
        /\ call.outcome = "returned"
        /\ call.result.image.ndim = 1
        /\ call.result.pulse_time.ndim = 1
        /\ Shape0(call.result.image) = Shape1(args.charges)
        /\ Shape0(call.result.pulse_time) = Shape1(args.pulse_time)
        /\ \A p \in 1..Shape1(args.charges) :
            /\ call.result.image.v[1][p]
                    \in {args.charges.v[1][p], args.charges.v[2][p]}
            /\ call.result.pulse_time.v[1][p]
                    \in {args.pulse_time.v[1][p], args.pulse_time.v[2][p]}

\* A call returned a low-gain value for one pixel and a high-gain value for
\* another, the channels differing in both pixels.
C1_Witness ==
    /\ DirectCallMade
    /\ call.outcome = "returned"
    /\ \E p, q \in 1..Shape1(args.charges) :
        /\ args.charges.v[1][p] # args.charges.v[2][p]
        /\ args.charges.v[1][q] # args.charges.v[2][q]
        /\ call.result.image.v[1][p] = args.charges.v[2][p]
        /\ call.result.image.v[1][q] = args.charges.v[1][q]

\* C2: for every pixel p the combined image is the low-gain value C[1][p]
\* exactly when some high-gain sample W[0][p][s] is above the threshold
\* passed to this call, and the high-gain value C[0][p] otherwise.
C2_LowGainIffSaturated ==
    (DirectCallMade /\ call.outcome = "returned") =>
        \A p \in 1..Shape1(args.charges) :
            call.result.image.v[1][p] =
                IF Saturated(args.waveform, p, call.threshold)
                THEN args.charges.v[2][p]
                ELSE args.charges.v[1][p]

\* The example: C = [[10, 10], [5, 5]] with pixel 0 alone saturated gives
\* [5, 10].
C2_Witness ==
    /\ DirectCallMade
    /\ call.outcome = "returned"
    /\ args.charges = ExampleCharges(2)
    /\ Saturated(args.waveform, 1, call.threshold)
    /\ ~Saturated(args.waveform, 2, call.threshold)
    /\ call.result.image = Arr1(<<Rat(5, 1), Rat(10, 1)>>)

\* Whether the step made is a call of gain_selection, direct or through
\* combine_channels, and the charges array that call was handed.
GainCallStep == call'.op \in {"gain_selection", "combine_channels"}
ChargesHanded ==
    IF call'.op = "gain_selection" THEN args.charges ELSE dl1[call'.tel].image

\* C3: a call of gain_selection with a charges array whose leading dimension
\* is not 2 raises AssertionError and returns nothing; the threshold table is
\* not written, and through combine_channels the event's dl1 is unchanged.
C3_AssertionFailsBeforeAnyWrite ==
    [][(GainCallStep /\ ChargesHanded.ndim # 0 /\ Shape0(ChargesHanded) # 2) =>
        /\ call'.outcome = "AssertionError"
        /\ call'.result = NoDl1
        /\ thresholds' = thresholds
        /\ dl1' = dl1]_vars

\* combine_channels failed at the assertion on a telescope that holds data.
C3_Witness ==
    /\ call.op = "combine_channels"
    /\ call.outcome = "AssertionError"
    /\ dl1[call.tel].image.ndim = 1
    /\ Shape0(dl1[call.tel].image) # 2

\* C4: a second combine_channels call for a telescope whose channels are
\* already combined fails at the assertion for every pixel count, without
\* writing the threshold table or the event.
C4_SecondCombineRejected ==
    [][(call'.op = "combine_channels" /\ stage[call'.tel] = "combined") =>
        /\ call'.outcome = "AssertionError"
        /\ thresholds' = thresholds
        /\ dl1' = dl1]_vars

\* C5: after lst_calibration and before combine_channels the telescope's
\* image and pulse_time are arrays [2, P]; after combine_channels returned
\* they are arrays [P]; combine_channels returns nothing.
C5_DualThenSingleChannel ==
    /\ \A t \in Tels :
        /\ stage[t] = "calibrated" =>
            /\ dl1[t].image.ndim = 2 /\ dl1[t].pulse_time.ndim = 2
            /\ Shape0(dl1[t].image) = 2 /\ Shape1(dl1[t].image) = NPix(t)
            /\ Shape0(dl1[t].pulse_time) = 2 /\ Shape1(dl1[t].pulse_time) = NPix(t)
        /\ stage[t] = "combined" =>
            /\ dl1[t].image.ndim = 1 /\ dl1[t].pulse_time.ndim = 1
            /\ Shape0(dl1[t].image) = NPix(t)
            /\ Shape0(dl1[t].pulse_time) = NPix(t)
    /\ call.op = "combine_channels" => call.result = NoDl1

\* combine_channels has returned for one telescope while another is
\* calibrated and not yet combined.
C5_Witness ==
    /\ call.op = "combine_channels"
    /\ call.outcome = "returned"
    /\ stage[call.tel] = "combined"
    /\ \E u \in Tels : stage[u] = "calibrated"

\* C6: the waveform lst_calibration hands to the extractor has the raw
\* waveform's shape and equals raw[g][p][s] - P[g][p] / N for every channel
\* g, pixel p and sample s, N the number of samples.
C6_PedestalSubtractedPerSample ==
    (call.op = "lst_calibration" /\ call.outcome = "returned") =>
        /\ Len(call.handed.v) = Len(r0[call.tel].v)
        /\ \A g \in 1..Len(r0[call.tel].v) :
            /\ Len(call.handed.v[g]) = Len(r0[call.tel].v[g])
            /\ \A p \in 1..Len(r0[call.tel].v[g]) :
                /\ Len(call.handed.v[g][p]) = Len(r0[call.tel].v[g][p])
                /\ \A s \in 1..Len(r0[call.tel].v[g][p]) :
                    call.handed.v[g][p][s] =
                        RSub(Rat(r0[call.tel].v[g][p][s], 1),
                             Rat(mc[call.tel].pedestal.v[g][p],
                                 Len(r0[call.tel].v[g][p])))

\* lst_calibration ran on a waveform with a pulse over pedestals that differ
\* between pixels and channels and are no multiple of the sample count.
C6_Witness ==
    /\ call.op = "lst_calibration"
    /\ call.outcome = "returned"
    /\ NPix(call.tel) > 1
    /\ mc[call.tel].pedestal = Distinct(2, NPix(call.tel))
    /\ \E g \in 1..2, p \in 1..NPix(call.tel), s \in 1..NumSamples :
        /\ r0[call.tel].v[g][p][s] > 0
        /\ call.handed.v[g][p][s].d # 1

\* C7: a call of gain_selection whose assertion passes sets the table's
\* entry of its camera id to exactly the threshold passed; every other entry,
\* and every entry in any other step, is left as it was.
C7_TableHoldsLastThreshold ==
    [][\A c \in CamIds :
        Entries(thresholds', c) =
            IF /\ GainCallStep
               /\ call'.cam_id = c
               /\ ChargesHanded.ndim # 0
               /\ Shape0(ChargesHanded) = 2
            THEN {<<c, call'.threshold>>}
            ELSE Entries(thresholds, c)]_vars

\* A call has replaced a camera's threshold while the other camera holds a
\* different one.
C7_Witness ==
    /\ call.op \in {"gain_selection", "combine_channels"}
    /\ call.outcome = "returned"
    /\ <<call.cam_id, call.threshold>> \in thresholds
    /\ \E e \in thresholds : e[1] # call.cam_id /\ e[2] # call.threshold

\* C8: what a gain_selection call returns is what the same call returns from
\* any other threshold table left by earlier calls.
C8_ResultIndependentOfTable ==
    DirectCallMade =>
        \A T \in Tables :
            \E r \in {gain_selection(args.waveform, args.charges, args.pulse_time,
                                     call.cam_id, call.threshold, T)} :
                /\ r.outcome = call.outcome
                /\ r.image = call.result.image
                /\ r.pulse_time = call.result.pulse_time

\* A call with threshold 1 on a waveform whose pulse is above 0 and not
\* above 1: the threshold the table held before would change the mask.
C8_Witness ==
    /\ DirectCallMade
    /\ call.outcome = "returned"
    /\ call.threshold = 1
    /\ \E p \in 1..Shape1(args.charges) :
        /\ Saturated(args.waveform, p, 0)
        /\ ~Saturated(args.waveform, p, 1)
        /\ args.charges.v[1][p] # args.charges.v[2][p]

\* C9: for every pixel the returned image and pulse time come from the same
\* channel: (C[0][p], T[0][p]) or (C[1][p], T[1][p]).
C9_ImageAndTimeFromSameChannel ==
    (DirectCallMade /\ call.outcome = "returned") =>
        \A p \in 1..Shape1(args.charges) :
            <<call.result.image.v[1][p], call.result.pulse_time.v[1][p]>> \in
                {<<args.charges.v[1][p], args.pulse_time.v[1][p]>>,
                 <<args.charges.v[2][p], args.pulse_time.v[2][p]>>}

\* A call returned the low-gain pair for a pixel whose channels differ in
\* charge and in pulse time.
C9_Witness ==
    /\ DirectCallMade
    /\ call.outcome = "returned"
    /\ \E p \in 1..Shape1(args.charges) :
        /\ args.charges.v[1][p] # args.charges.v[2][p]
        /\ args.pulse_time.v[1][p] # args.pulse_time.v[2][p]
        /\ call.result.image.v[1][p] = args.charges.v[2][p]
        /\ call.result.pulse_time.v[1][p] = args.pulse_time.v[2][p]

====
